---- MODULE Spec2Model ----
(***************************************************************************)
(* Model of src/main.py: the collocation extractor (TextProcessor) and the *)
(* lexicon graph edited through the LexiconEditor window.                  *)
(*                                                                         *)
(* Text is a sequence of characters.  A character is written as a short    *)
(* name: a Latin transliteration of one Cyrillic letter ("k", "ch",        *)
(* "soft", ...), a capitalised name for the capital letter ("K"), or the   *)
(* character itself for space, parentheses and digits.  Len of a word is   *)
(* therefore the number of characters of the Russian word.                 *)
(***************************************************************************)
EXTENDS Integers, Sequences, FiniteSets, TLC

VARIABLES
    lexicon,        \* self.lexicon : lemma -> set of partner lemmas
    lexeme_list,    \* self.lexeme_list : the item texts shown on the left
    selected,       \* the selected item of lexeme_list, NoSel when none
    partner_list,   \* self.partner_list : the partner texts shown on the right
    search_input,   \* self.search_input : the text of the search box
    pc,             \* "running", or "aborted" after an unhandled exception
    last,           \* what the latest handler did (op, outcome, operands)
    text,           \* the document handed to extract_collocations
    new_collocs,    \* the mapping extract_collocations returned for text
    key_order,      \* the keys of self.lexicon in the order the dict holds them
    written         \* what the latest handler wrote to the file it was given

vars == <<lexicon, lexeme_list, selected, partner_list, search_input,
          pc, last, text, new_collocs, key_order, written>>

-----------------------------------------------------------------------------
(* Bounds of the exhaustive document enumeration.                          *)
MaxSentences == 2
MaxSentLen == 2

(* Bound of the handlers' exploration: load_file and add_partner are taken *)
(* where they leave a lexicon of at most MaxKeys keys.                     *)
MaxKeys == 3

(* Minimum number of characters of a lexeme (len(word) < 4, len(a) >= 4).  *)
MinLen == 4

-----------------------------------------------------------------------------
(* The words of the model, as character sequences.                         *)
kniga   == <<"k", "n", "i", "g", "a">>                \* kniga  (noun)
knigi   == <<"k", "n", "i", "g", "i">>                \* a form of kniga
Kniga   == <<"K", "n", "i", "g", "a">>                \* capitalised kniga
mogut   == <<"m", "o", "g", "u", "t">>                \* a form of moch'
mozhet  == <<"m", "o", "zh", "e", "t">>               \* stopword, form of moch'
moch    == <<"m", "o", "ch", "soft">>                 \* moch' (not a stopword)
novaya  == <<"n", "o", "v", "a", "ya">>               \* a form of novyj
novyj   == <<"n", "o", "v", "y", "j">>                \* novyj  (adjective)
koty    == <<"k", "o", "t", "y">>                     \* plural of kot
kot     == <<"k", "o", "t">>                          \* kot    (3 letters)
bylo    == <<"b", "y", "l", "o">>                     \* stopword, form of byt'
budut   == <<"b", "u", "d", "u", "t">>                \* form of byt', no stopword
byt     == <<"b", "y", "t", "soft">>                  \* byt'   (stopword)
bystro  == <<"b", "y", "s", "t", "r", "o">>           \* bystro (adverb)
year    == <<"2", "0", "2", "4">>                     \* digits, not a word
oddtext == <<"a", "b", "v", "g", " ", "(", "d", "e">> \* typed text "abvg (de"
noparse == <<"ie", "ie", "ie", "ie">>                 \* text the analyzer gives no analysis for

NoSel == <<>>

(* russian_stopwords: the members of the NLTK list and of the extension    *)
(* that are forms of the words above.                                      *)
russian_stopwords == {mozhet, bylo, byt}

(* The artifact lemmas named in extract_collocations and add_partner are   *)
(* outside the vocabulary above; the sets are kept for the membership test. *)
nibyt  == <<"n", "i", "b", "y", "t", "soft">>
libyt  == <<"l", "i", "b", "y", "t", "soft">>
tobyt  == <<"t", "o", "b", "y", "t", "soft">>
koe    == <<"k", "o", "e">>
ExtractArtifacts == {nibyt, libyt, tobyt, koe}
AddArtifacts == {nibyt, libyt, tobyt}

ContentPOS == {"NOUN", "VERB", "INFN", "ADJF", "ADJS", "PRTF", "PRTS"}

-----------------------------------------------------------------------------
(* str.lower() on one character and on a text.                             *)
LowerChar(c) ==
    IF c = "K" THEN "k" ELSE c

RECURSIVE Lower(_)
Lower(s) ==
    IF s = <<>> THEN <<>> ELSE <<LowerChar(Head(s))>> \o Lower(Tail(s))

(* The character class [a-ya yo] of the tokenizer's pattern.                *)
CyrillicLower ==
    {"a", "b", "v", "g", "d", "e", "zh", "i", "j", "k", "l", "m", "n", "o",
     "p", "r", "s", "t", "u", "ch", "y", "soft", "ie", "yu", "ya", "yo"}

(* re.findall(r'\b[a-ya yo]+(?:-[a-ya yo]+)*\b', sent) on a sentence given   *)
(* as its sequence of chunks: a chunk of letters of the class is a word,   *)
(* any other chunk (digits, Latin text, punctuation) yields no word.       *)
IsWord(chunk) ==
    /\ chunk # <<>>
    /\ \A i \in 1..Len(chunk) : chunk[i] \in CyrillicLower

RECURSIVE FindAll(_)
FindAll(sent) ==
    IF sent = <<>> THEN <<>>
    ELSE (IF IsWord(Head(sent)) THEN <<Head(sent)>> ELSE <<>>)
         \o FindAll(Tail(sent))

(* morph.parse(word): the analyses of a word, each with its normal form,   *)
(* part of speech and score (in thousandths).  A word outside the          *)
(* dictionary gets one analysis whose normal form is the word itself.      *)
Analysis(nf, pos, score) == [normal_form |-> nf, POS |-> pos, score |-> score]

Parse(word) ==
    CASE word = kniga   -> <<Analysis(kniga, "NOUN", 1000)>>
      [] word = knigi   -> <<Analysis(kniga, "NOUN", 400),
                             Analysis(kniga, "NOUN", 400),
                             Analysis(kniga, "NOUN", 200)>>
      [] word = mogut   -> <<Analysis(moch, "VERB", 1000)>>
      [] word = mozhet  -> <<Analysis(moch, "VERB", 1000)>>
      [] word = moch    -> <<Analysis(moch, "INFN", 1000)>>
      [] word = novaya  -> <<Analysis(novyj, "ADJF", 1000)>>
      [] word = novyj   -> <<Analysis(novyj, "ADJF", 600),
                             Analysis(novyj, "ADJF", 400)>>
      [] word = koty    -> <<Analysis(kot, "NOUN", 1000)>>
      [] word = kot     -> <<Analysis(kot, "NOUN", 1000)>>
      [] word = bylo    -> <<Analysis(byt, "VERB", 1000)>>
      [] word = budut   -> <<Analysis(byt, "VERB", 1000)>>
      [] word = byt     -> <<Analysis(byt, "INFN", 1000)>>
      [] word = bystro  -> <<Analysis(bystro, "ADVB", 800),
                             Analysis(bystro, "ADJS", 200)>>
      [] word = noparse -> <<>>
      [] OTHER          -> <<Analysis(word, "UNKN", 1000)>>

(* max(parses, key=lambda p: p.score): the first analysis of top score.    *)
RECURSIVE MaxByScore(_)
MaxByScore(parses) ==
    IF Len(parses) = 1 THEN parses[1]
    ELSE LET rest == MaxByScore(Tail(parses))
         IN  IF rest.score > Head(parses).score THEN rest ELSE Head(parses)

-----------------------------------------------------------------------------
(* The dictionary {lemma: set(partners)} as a function on its keys.        *)
EmptyLexicon == [k \in {} |-> {}]

Keys(d) == DOMAIN d

Get(d, k) == IF k \in DOMAIN d THEN d[k] ELSE {}

Put(d, k, v) == [x \in (DOMAIN d) \cup {k} |-> IF x = k THEN v ELSE d[x]]

Del(d, k) == [x \in (DOMAIN d) \ {k} |-> d[x]]

(* colloc_dict[a].add(b) on a defaultdict(set).                            *)
DefaultAdd(d, a, b) == Put(d, a, Get(d, a) \cup {b})

-----------------------------------------------------------------------------
(* TextProcessor.extract_collocations                                      *)

(* The body of "for word in words": the lemma the word contributes to the  *)
(* sentence's lemma list, as a list of zero or one lemma.                  *)
WordLemma(word) ==
    IF Len(word) < MinLen \/ word \in russian_stopwords THEN <<>>
    ELSE LET parses == Parse(word)
         IN  IF parses = <<>> THEN <<>>
             ELSE LET parsed == MaxByScore(parses)
                      pos    == parsed.POS
                      lemma  == Lower(parsed.normal_form)
                  IN  IF lemma \in ExtractArtifacts \/ lemma \in russian_stopwords
                      THEN <<>>
                      ELSE IF pos \in ContentPOS THEN <<lemma>> ELSE <<>>

RECURSIVE SentenceLemmas(_)
SentenceLemmas(words) ==
    IF words = <<>> THEN <<>>
    ELSE WordLemma(Head(words)) \o SentenceLemmas(Tail(words))

(* AddBigram without the test a != b.                                      *)
AddBigramNoSelfTest(colloc_dict, a, b) ==
    IF Len(a) >= MinLen /\ Len(b) >= MinLen
    THEN DefaultAdd(DefaultAdd(colloc_dict, a, b), b, a)
    ELSE colloc_dict

(* AddBigram without the tests len(a) >= 4 and len(b) >= 4.                *)
AddBigramNoLenTest(colloc_dict, a, b) ==
    IF a # b
    THEN DefaultAdd(DefaultAdd(colloc_dict, a, b), b, a)
    ELSE colloc_dict

(* The body of "for i in range(len(lemmas) - 1)".                          *)
AddBigram(colloc_dict, a, b) ==
    IF a # b /\ Len(a) >= MinLen /\ Len(b) >= MinLen
    THEN DefaultAdd(DefaultAdd(colloc_dict, a, b), b, a)
    ELSE colloc_dict

RECURSIVE Bigrams(_, _, _)
Bigrams(colloc_dict, lemmas, i) ==
    IF i > Len(lemmas) - 1 THEN colloc_dict
    ELSE Bigrams(AddBigram(colloc_dict, lemmas[i], lemmas[i + 1]), lemmas, i + 1)

(* The body of "for sent in sentences".                                    *)
SentenceStep(colloc_dict, sent) ==
    Bigrams(colloc_dict, SentenceLemmas(FindAll(sent)), 1)

RECURSIVE ForSentences(_, _)
ForSentences(colloc_dict, sentences) ==
    IF sentences = <<>> THEN colloc_dict
    ELSE ForSentences(SentenceStep(colloc_dict, Head(sentences)), Tail(sentences))

(* sent_tokenize(text.lower()): a document is given as the sequence of its *)
(* sentences, each the sequence of its chunks; lower() acts on each chunk. *)
RECURSIVE LowerSentence(_)
LowerSentence(sent) ==
    IF sent = <<>> THEN <<>>
    ELSE <<Lower(Head(sent))>> \o LowerSentence(Tail(sent))

RECURSIVE SentTokenize(_)
SentTokenize(doc) ==
    IF doc = <<>> THEN <<>>
    ELSE <<LowerSentence(Head(doc))>> \o SentTokenize(Tail(doc))

(* extract_collocations forming the bigrams over the whole text, not       *)
(* sentence by sentence.                                                   *)
RECURSIVE AllWords(_)
AllWords(sentences) ==
    IF sentences = <<>> THEN <<>>
    ELSE FindAll(Head(sentences)) \o AllWords(Tail(sentences))

extract_collocations_whole_text(doc) ==
    Bigrams(EmptyLexicon, SentenceLemmas(AllWords(SentTokenize(doc))), 1)

extract_collocations(doc) ==
    ForSentences(EmptyLexicon, SentTokenize(doc))

-----------------------------------------------------------------------------
(* Text helpers of the window: ordering, strip, substring, item texts.     *)

(* The code point of a character: Python compares and sorts str by it.     *)
CodePoint(c) ==
    CASE c = " " -> 32 [] c = "(" -> 40 [] c = ")" -> 41
      [] c = "0" -> 48 [] c = "1" -> 49 [] c = "2" -> 50 [] c = "3" -> 51
      [] c = "4" -> 52 [] c = "5" -> 53 [] c = "6" -> 54 [] c = "7" -> 55
      [] c = "8" -> 56 [] c = "9" -> 57
      [] c = "K" -> 1050
      [] c = "a" -> 1072 [] c = "b" -> 1073 [] c = "v" -> 1074
      [] c = "g" -> 1075 [] c = "d" -> 1076 [] c = "e" -> 1077
      [] c = "zh" -> 1078
      [] c = "i" -> 1080 [] c = "j" -> 1081 [] c = "k" -> 1082
      [] c = "l" -> 1083 [] c = "m" -> 1084 [] c = "n" -> 1085 [] c = "o" -> 1086
      [] c = "p" -> 1087 [] c = "r" -> 1088 [] c = "s" -> 1089
      [] c = "t" -> 1090 [] c = "u" -> 1091 [] c = "ch" -> 1095
      [] c = "y" -> 1099 [] c = "soft" -> 1100 [] c = "ie" -> 1101
      [] c = "yu" -> 1102 [] c = "ya" -> 1103 [] c = "yo" -> 1105

(* s < t for two str values.                                               *)
RECURSIVE LessText(_, _)
LessText(s, t) ==
    IF t = <<>> THEN FALSE
    ELSE IF s = <<>> THEN TRUE
    ELSE IF Head(s) = Head(t) THEN LessText(Tail(s), Tail(t))
    ELSE CodePoint(Head(s)) < CodePoint(Head(t))

(* sorted(S) for a set of str.                                             *)
RECURSIVE Sorted(_)
Sorted(S) ==
    IF S = {} THEN <<>>
    ELSE LET m == CHOOSE x \in S : \A y \in S \ {x} : LessText(x, y)
         IN  <<m>> \o Sorted(S \ {m})

(* str.strip(): white space removed at both ends.                          *)
RECURSIVE LStrip(_)
LStrip(s) ==
    IF s # <<>> /\ Head(s) = " " THEN LStrip(Tail(s)) ELSE s

RECURSIVE RStrip(_)
RStrip(s) ==
    IF s # <<>> /\ s[Len(s)] = " " THEN RStrip(SubSeq(s, 1, Len(s) - 1)) ELSE s

Strip(s) == RStrip(LStrip(s))

(* sub in s.                                                               *)
Contains(sub, s) ==
    \E i \in 1..(Len(s) - Len(sub) + 1) : SubSeq(s, i, i + Len(sub) - 1) = sub

(* str(n) for n >= 0.                                                      *)
Digit(n) ==
    CASE n = 0 -> "0" [] n = 1 -> "1" [] n = 2 -> "2" [] n = 3 -> "3"
      [] n = 4 -> "4" [] n = 5 -> "5" [] n = 6 -> "6" [] n = 7 -> "7"
      [] n = 8 -> "8" [] n = 9 -> "9"

RECURSIVE Str(_)
Str(n) ==
    IF n < 10 THEN <<Digit(n)>> ELSE Str(n \div 10) \o <<Digit(n % 10)>>

(* f"{lemma} ({partners_count} partnyorov)"                                *)
ItemText(lemma, partners_count) ==
    lemma \o <<" ", "(">> \o Str(partners_count)
          \o <<" ", "p", "a", "r", "t", "n", "yo", "r", "o", "v", ")">>

(* item.text().split(' (')[0]: the text before the first " (".            *)
RECURSIVE SplitParenHead(_)
SplitParenHead(s) ==
    IF Len(s) < 2 THEN s
    ELSE IF s[1] = " " /\ s[2] = "(" THEN <<>>
    ELSE <<Head(s)>> \o SplitParenHead(Tail(s))

RECURSIVE SeqToSet(_)
SeqToSet(s) ==
    IF s = <<>> THEN {} ELSE {Head(s)} \cup SeqToSet(Tail(s))

RECURSIVE ItemsOf(_, _)
ItemsOf(d, lemmas) ==
    IF lemmas = <<>> THEN <<>>
    ELSE <<ItemText(Head(lemmas), Cardinality(d[Head(lemmas)]))>>
         \o ItemsOf(d, Tail(lemmas))

(* LexiconEditor.update_lexeme_list: the items the list holds afterwards.  *)
LexemeItems(d, search) ==
    LET search_text == Strip(Lower(search))
        shown == IF search_text # <<>>
                 THEN {l \in Keys(d) : Contains(search_text, Lower(l))}
                 ELSE Keys(d)
    IN  ItemsOf(d, Sorted(shown))

(* LexiconEditor.show_partners: the partner list for the selected item.    *)
PartnerItems(d, sel) ==
    IF sel = NoSel THEN <<>> ELSE Sorted(Get(d, SplitParenHead(sel)))

-----------------------------------------------------------------------------
(* The lexicon operations of LexiconEditor.                                *)

(* load_file, "for lemma, partners in new_collocs.items()": the union of   *)
(* every partner set of the mapping into the lexicon.                      *)
RECURSIVE MergeItems(_, _, _)
MergeItems(d, m, todo) ==
    IF todo = {} THEN d
    ELSE LET lemma == CHOOSE k \in todo : TRUE
             d1    == IF lemma \notin Keys(d) THEN Put(d, lemma, {}) ELSE d
         IN  MergeItems(Put(d1, lemma, d1[lemma] \cup m[lemma]), m, todo \ {lemma})

(* Merge assigning the new partner set where the code unites it with the   *)
(* old one (lexicon[lemma] = partners).                                    *)
MergeOverwrite(d, m) ==
    [k \in Keys(d) \cup Keys(m) |-> IF k \in Keys(m) THEN m[k] ELSE d[k]]

Merge(d, m) == MergeItems(d, m, Keys(m))

(* add_partner: the text taken from the input box.                         *)
PartnerText(typed) == Lower(Strip(typed))

(* add_partner: the lemma of the typed partner.                            *)
PartnerLemma(partner_text) ==
    Lower(MaxByScore(Parse(partner_text)).normal_form)

(* add_partner: which of its checks turns the request down, or "ok".       *)
AddCheck(lemma, typed) ==
    LET partner_text == PartnerText(typed)
    IN  IF partner_text = <<>> \/ Len(partner_text) < MinLen THEN "too_short"
        ELSE IF Parse(partner_text) = <<>> THEN "no_parse"
        ELSE IF \/ PartnerLemma(partner_text) \in russian_stopwords
                \/ PartnerLemma(partner_text) \in AddArtifacts THEN "stopword"
        ELSE IF lemma = PartnerLemma(partner_text) THEN "self_loop"
        ELSE "ok"

(* AddLink without its last statement, lexicon[partner_lemma].add(lemma).  *)
AddLinkOneWay(d, lemma, partner_lemma) ==
    LET d1 == IF partner_lemma \notin Keys(d) THEN Put(d, partner_lemma, {}) ELSE d
    IN  IF lemma \notin Keys(d1)
        THEN [lexicon |-> d1, raised |-> TRUE]
        ELSE [lexicon |-> Put(d1, lemma, d1[lemma] \cup {partner_lemma}),
              raised  |-> FALSE]

(* add_partner, the four statements that add the edge.  lexicon[lemma]     *)
(* raises KeyError when lemma is no key; the key of the partner has been   *)
(* created by then.                                                        *)
AddLink(d, lemma, partner_lemma) ==
    LET d1 == IF partner_lemma \notin Keys(d) THEN Put(d, partner_lemma, {}) ELSE d
    IN  IF lemma \notin Keys(d1)
        THEN [lexicon |-> d1, raised |-> TRUE]
        ELSE LET d2 == Put(d1, lemma, d1[lemma] \cup {partner_lemma})
             IN  [lexicon |-> Put(d2, partner_lemma, d2[partner_lemma] \cup {lemma}),
                  raised  |-> FALSE]

(* AddResult creating the key of the partner lemma right after the         *)
(* lemmatization, before the stopword and self-loop checks.                *)
AddResultEarlyKey(d, lemma, typed) ==
    LET check == AddCheck(lemma, typed)
    IN  IF check \in {"too_short", "no_parse"}
        THEN [lexicon |-> d, outcome |-> check, partner |-> NoSel]
        ELSE LET partner_lemma == PartnerLemma(PartnerText(typed))
                 d1 == IF partner_lemma \notin Keys(d)
                       THEN Put(d, partner_lemma, {}) ELSE d
                 r == AddLink(d1, lemma, partner_lemma)
             IN  IF check # "ok"
                 THEN [lexicon |-> d1, outcome |-> check, partner |-> NoSel]
                 ELSE [lexicon |-> r.lexicon,
                       outcome |-> IF r.raised THEN "KeyError" ELSE "added",
                       partner |-> partner_lemma]

(* add_partner from the selected lemma on: the lexicon it leaves, how it   *)
(* ended and the partner lemma it added.  An unhandled KeyError ends the   *)
(* handler where it is raised.                                             *)
AddResult(d, lemma, typed) ==
    LET check == AddCheck(lemma, typed)
    IN  IF check # "ok"
        THEN [lexicon |-> d, outcome |-> check, partner |-> NoSel]
        ELSE LET partner_lemma == PartnerLemma(PartnerText(typed))
                 r == AddLink(d, lemma, partner_lemma)
             IN  [lexicon |-> r.lexicon,
                  outcome |-> IF r.raised THEN "KeyError" ELSE "added",
                  partner |-> partner_lemma]

(* RemoveLink without its second statement, lexicon[partner].discard(lemma). *)
RemoveLinkOneSide(d, lemma, partner) ==
    IF lemma \notin Keys(d) THEN [lexicon |-> d, raised |-> TRUE]
    ELSE LET d1 == Put(d, lemma, d[lemma] \ {partner})
             d3 == IF d1[lemma] = {} THEN Del(d1, lemma) ELSE d1
             d4 == IF partner \in Keys(d3) /\ d3[partner] = {}
                   THEN Del(d3, partner) ELSE d3
         IN  [lexicon |-> d4, raised |-> partner \notin Keys(d1)]

(* remove_partner, the statements that drop the edge and the empty keys.   *)
RemoveLink(d, lemma, partner) ==
    IF lemma \notin Keys(d) THEN [lexicon |-> d, raised |-> TRUE]
    ELSE LET d1 == Put(d, lemma, d[lemma] \ {partner})
         IN  IF partner \notin Keys(d1) THEN [lexicon |-> d1, raised |-> TRUE]
             ELSE LET d2 == Put(d1, partner, d1[partner] \ {lemma})
                      d3 == IF lemma \in Keys(d2) /\ d2[lemma] = {}
                            THEN Del(d2, lemma) ELSE d2
                      d4 == IF partner \in Keys(d3) /\ d3[partner] = {}
                            THEN Del(d3, partner) ELSE d3
                  IN  [lexicon |-> d4, raised |-> FALSE]

-----------------------------------------------------------------------------
(* The order of the keys.  A Python dict lists its keys in the order they  *)
(* were inserted: a key that is assigned again keeps its place, a deleted  *)
(* key leaves, a new key goes to the end.                                  *)

OrderAdd(order, k) ==
    IF k \in SeqToSet(order) THEN order ELSE Append(order, k)

(* The keys colloc_dict[a].add(b); colloc_dict[b].add(a) insert, when the  *)
(* test of the bigram lets the two statements run.                         *)
BigramOrder(order, a, b) ==
    IF AddBigram(EmptyLexicon, a, b) # EmptyLexicon
    THEN OrderAdd(OrderAdd(order, a), b)
    ELSE order

RECURSIVE BigramsOrder(_, _, _)
BigramsOrder(order, lemmas, i) ==
    IF i > Len(lemmas) - 1 THEN order
    ELSE BigramsOrder(BigramOrder(order, lemmas[i], lemmas[i + 1]), lemmas, i + 1)

RECURSIVE ForSentencesOrder(_, _)
ForSentencesOrder(order, sentences) ==
    IF sentences = <<>> THEN order
    ELSE ForSentencesOrder(
             BigramsOrder(order, SentenceLemmas(FindAll(Head(sentences))), 1),
             Tail(sentences))

(* The keys of the dict extract_collocations returns, in its order.        *)
colloc_order(doc) == ForSentencesOrder(<<>>, SentTokenize(doc))

(* The order of the keys of dict d after a handler, given the order before *)
(* it and the keys the handler inserted, in the order it inserted them.    *)
DictOrder(order, d, inserted) ==
    SelectSeq(order, LAMBDA k : k \in Keys(d))
    \o SelectSeq(inserted, LAMBDA k : k \in Keys(d) \ SeqToSet(order))

(* The files the exports write.  save_lexicon dumps the dict                *)
(* {k: sorted(list(v)) for k, v in self.lexicon.items()}: one member per   *)
(* key, in the order of the dict.  document_lexicon writes the two totals  *)
(* and one numbered entry per key of sorted(self.lexicon.keys()); the      *)
(* number of an entry is its place in the sequence.                        *)
NothingWritten == [kind |-> "none", header |-> <<>>, entries |-> <<>>]

Entry(d, k) == [lemma |-> k, partners |-> Sorted(d[k])]

JsonEntries(d, order) == [i \in 1..Len(order) |-> Entry(d, order[i])]

ReportEntries(d) ==
    LET lemmas == Sorted(Keys(d))
    IN  [i \in 1..Len(lemmas) |-> Entry(d, lemmas[i])]

RECURSIVE SumLen(_, _)
SumLen(d, todo) ==
    IF todo = {} THEN 0
    ELSE LET k == CHOOSE x \in todo : TRUE
         IN  Cardinality(d[k]) + SumLen(d, todo \ {k})

ReportHeader(d) == <<Cardinality(Keys(d)), SumLen(d, Keys(d)) \div 2>>

-----------------------------------------------------------------------------
(* What a handler did: its name, its outcome, the lemma and the partner it *)
(* worked on, and its input: the text typed for add_partner, the document *)
(* for load_file (NoSel where it has none).                                *)
Did(op, outcome, lemma, partner, input) ==
    [op |-> op, outcome |-> outcome, lemma |-> lemma, partner |-> partner,
     input |-> input]

(* The documents offered to load_file: sequences of sentences, a sentence  *)
(* a sequence of chunks.  The empty document is the blank file.            *)
SampleDocs ==
    { <<>>,
      << <<year>> >>,
      << <<kniga, mogut>> >>,
      << <<Kniga>>, <<mogut>> >>,
      << <<knigi, kniga, mogut>> >>,
      << <<mogut, koty, kniga>>, <<bylo, bystro>> >>,
      << <<mozhet, budut, kniga>>, <<kniga, year, mogut, koty>> >> }

(* What the user gives load_file: whether a file was chosen in the dialog, *)
(* the extension of its path, the document it holds, and whether reading   *)
(* it or extract_collocations raises ("read", "extract") or not ("none").  *)
LoadRequest(chosen, ext, doc, raises) ==
    [chosen |-> chosen, ext |-> ext, doc |-> doc, raises |-> raises]

LoadRequests ==
    { LoadRequest(FALSE, "txt", <<>>, "none"),
      LoadRequest(TRUE, "doc", << <<kniga, mogut>> >>, "none"),
      LoadRequest(TRUE, "txt", << <<kniga, mogut>> >>, "read"),
      LoadRequest(TRUE, "rtf", << <<kniga, mogut>> >>, "extract"),
      LoadRequest(TRUE, "rtf", << <<Kniga>>, <<mogut>> >>, "none") }
    \cup { LoadRequest(TRUE, "txt", doc, "none") : doc \in SampleDocs }

(* The texts typed into the partner box.                                   *)
TypedTexts ==
    { <<>>, kot, noparse, bylo, budut, mozhet, koty, oddtext,
      <<"K", "n", "i", "g", "i", " ">> }

(* The texts typed into the search box.                                    *)
SearchTexts == { <<>>, <<"K">> }

Init ==
    /\ lexicon = EmptyLexicon
    /\ lexeme_list = <<>>
    /\ selected = NoSel
    /\ partner_list = <<>>
    /\ search_input = <<>>
    /\ pc = "running"
    /\ last = Did("init", "ok", NoSel, NoSel, NoSel)
    /\ text = <<>>
    /\ new_collocs = EmptyLexicon
    /\ key_order = <<>>
    /\ written = NothingWritten

(* The user selects an item of the left list: itemSelectionChanged runs    *)
(* show_partners.                                                          *)
SelectLexeme ==
    /\ pc = "running"
    /\ \E i \in 1..Len(lexeme_list) :
         /\ lexeme_list[i] # selected
         /\ selected' = lexeme_list[i]
         /\ partner_list' = PartnerItems(lexicon, lexeme_list[i])
    /\ last' = Did("select", "ok", NoSel, NoSel, NoSel)
    /\ written' = NothingWritten
    /\ UNCHANGED <<lexicon, lexeme_list, search_input, pc, text, new_collocs,
                   key_order>>

(* filter_lexemes: the search text changes and update_lexeme_list rebuilds *)
(* the list.  Clearing the list drops its selection, and show_partners     *)
(* then empties the partner list.                                          *)
FilterLexemes ==
    /\ pc = "running"
    /\ \E t \in SearchTexts :
         /\ t # search_input
         /\ search_input' = t
         /\ lexeme_list' = LexemeItems(lexicon, t)
    /\ selected' = NoSel
    /\ partner_list' = <<>>
    /\ last' = Did("filter", "ok", NoSel, NoSel, NoSel)
    /\ written' = NothingWritten
    /\ UNCHANGED <<lexicon, pc, text, new_collocs, key_order>>

(* load_file                                                               *)
LoadOutcome(req) ==
    IF ~req.chosen THEN "cancelled"
    ELSE IF req.ext \notin {"rtf", "txt"} THEN "unsupported"
    ELSE IF req.raises = "read" THEN "read_failed"
    ELSE IF req.doc = <<>> THEN "empty"
    ELSE IF req.raises = "extract" THEN "extract_failed"
    ELSE "merged"

LoadFile ==
    /\ pc = "running"
    /\ \E req \in LoadRequests :
         LET outcome == LoadOutcome(req)
         IN  /\ last' = Did("load_file", outcome, NoSel, NoSel, req.doc)
             /\ IF outcome = "merged"
                THEN /\ lexicon' = Merge(lexicon, extract_collocations(req.doc))
                     /\ Cardinality(Keys(lexicon')) <= MaxKeys
                     /\ key_order' = DictOrder(key_order, lexicon',
                                               colloc_order(req.doc))
                     /\ lexeme_list' = LexemeItems(lexicon', search_input)
                     /\ selected' = NoSel
                     /\ partner_list' = <<>>
                ELSE UNCHANGED <<lexicon, key_order, lexeme_list, selected,
                                 partner_list>>
    /\ written' = NothingWritten
    /\ UNCHANGED <<search_input, pc, text, new_collocs>>

(* add_partner                                                             *)
AddPartner ==
    /\ pc = "running"
    /\ \E typed \in TypedTexts :
         IF selected = NoSel
         THEN /\ last' = Did("add_partner", "no_selection", NoSel, NoSel, NoSel)
              /\ UNCHANGED <<lexicon, key_order, lexeme_list, selected,
                             partner_list, pc>>
         ELSE LET lemma == SplitParenHead(selected)
                  r == AddResult(lexicon, lemma, typed)
              IN  /\ Cardinality(Keys(r.lexicon)) <= MaxKeys
                  /\ last' = Did("add_partner", r.outcome, lemma, r.partner, typed)
                  /\ lexicon' = r.lexicon
                  /\ key_order' = DictOrder(key_order, r.lexicon, <<r.partner>>)
                  /\ IF r.outcome = "added"
                     THEN /\ lexeme_list' = LexemeItems(r.lexicon, search_input)
                          /\ selected' = NoSel
                          /\ partner_list' = <<>>
                          /\ pc' = pc
                     ELSE /\ UNCHANGED <<lexeme_list, selected, partner_list>>
                          /\ pc' = IF r.outcome = "KeyError" THEN "aborted" ELSE pc
    /\ written' = NothingWritten
    /\ UNCHANGED <<search_input, text, new_collocs>>

(* remove_partner.  The selected item of the partner list is the user's    *)
(* choice among the items the list holds when the button is pressed.       *)
RemovePartner ==
    /\ pc = "running"
    /\ \E partner_item \in SeqToSet(partner_list) \cup {NoSel} :
         IF selected = NoSel \/ partner_item = NoSel
         THEN /\ last' = Did("remove_partner", "no_selection", NoSel, NoSel, NoSel)
              /\ UNCHANGED <<lexicon, key_order, lexeme_list, selected,
                             partner_list, pc>>
         ELSE LET lemma == SplitParenHead(selected)
                  r == RemoveLink(lexicon, lemma, partner_item)
              IN  /\ lexicon' = r.lexicon
                  /\ key_order' = DictOrder(key_order, r.lexicon, <<>>)
                  /\ IF r.raised
                     THEN /\ pc' = "aborted"
                          /\ last' = Did("remove_partner", "KeyError",
                                         lemma, partner_item, NoSel)
                          /\ UNCHANGED <<lexeme_list, selected, partner_list>>
                     ELSE /\ pc' = pc
                          /\ last' = Did("remove_partner", "removed",
                                         lemma, partner_item, NoSel)
                          /\ lexeme_list' = LexemeItems(r.lexicon, search_input)
                          /\ selected' = NoSel
                          /\ partner_list' = <<>>
    /\ written' = NothingWritten
    /\ UNCHANGED <<search_input, text, new_collocs>>

(* clear_all                                                               *)
ClearAll ==
    /\ pc = "running"
    /\ \E reply_yes \in BOOLEAN :
         IF Keys(lexicon) = {}
         THEN /\ last' = Did("clear_all", "already_empty", NoSel, NoSel, NoSel)
              /\ UNCHANGED <<lexicon, key_order, lexeme_list, selected,
                             partner_list, search_input>>
         ELSE IF ~reply_yes
         THEN /\ last' = Did("clear_all", "declined", NoSel, NoSel, NoSel)
              /\ UNCHANGED <<lexicon, key_order, lexeme_list, selected,
                             partner_list, search_input>>
         ELSE /\ last' = Did("clear_all", "cleared", NoSel, NoSel, NoSel)
              /\ lexicon' = EmptyLexicon
              /\ key_order' = <<>>
              /\ lexeme_list' = <<>>
              /\ selected' = NoSel
              /\ partner_list' = <<>>
              /\ search_input' = <<>>
    /\ written' = NothingWritten
    /\ UNCHANGED <<pc, text, new_collocs>>

(* save_lexicon                                                            *)
SaveLexicon ==
    /\ pc = "running"
    /\ \E chosen \in BOOLEAN :
         IF Keys(lexicon) = {}
         THEN /\ last' = Did("save_lexicon", "empty_lexicon", NoSel, NoSel, NoSel)
              /\ written' = NothingWritten
         ELSE IF ~chosen
         THEN /\ last' = Did("save_lexicon", "cancelled", NoSel, NoSel, NoSel)
              /\ written' = NothingWritten
         ELSE /\ last' = Did("save_lexicon", "saved", NoSel, NoSel, NoSel)
              /\ written' = [kind    |-> "json",
                             header  |-> <<>>,
                             entries |-> JsonEntries(lexicon, key_order)]
    /\ UNCHANGED <<lexicon, key_order, lexeme_list, selected, partner_list,
                   search_input, pc, text, new_collocs>>

(* document_lexicon                                                        *)
DocumentLexicon ==
    /\ pc = "running"
    /\ \E chosen \in BOOLEAN :
         IF Keys(lexicon) = {}
         THEN /\ last' = Did("document_lexicon", "empty_lexicon", NoSel, NoSel, NoSel)
              /\ written' = NothingWritten
         ELSE IF ~chosen
         THEN /\ last' = Did("document_lexicon", "cancelled", NoSel, NoSel, NoSel)
              /\ written' = NothingWritten
         ELSE /\ last' = Did("document_lexicon", "saved", NoSel, NoSel, NoSel)
              /\ written' = [kind    |-> "report",
                             header  |-> ReportHeader(lexicon),
                             entries |-> ReportEntries(lexicon)]
    /\ UNCHANGED <<lexicon, key_order, lexeme_list, selected, partner_list,
                   search_input, pc, text, new_collocs>>

Next ==
    \/ SelectLexeme
    \/ FilterLexemes
    \/ LoadFile
    \/ AddPartner
    \/ RemovePartner
    \/ ClearAll
    \/ SaveLexicon
    \/ DocumentLexicon

Spec == Init /\ [][Next]_vars

-----------------------------------------------------------------------------
(* extract_collocations on its own, over every document of at most         *)
(* MaxSentences sentences of at most MaxSentLen chunks.                    *)
DocChunks == {kniga, mogut, novaya}

Sentences == UNION {[1..n -> DocChunks] : n \in 0..MaxSentLen}

Docs == UNION {[1..n -> Sentences] : n \in 0..MaxSentences}

InitExtract ==
    /\ lexicon = EmptyLexicon
    /\ lexeme_list = <<>>
    /\ selected = NoSel
    /\ partner_list = <<>>
    /\ search_input = <<>>
    /\ pc = "running"
    /\ last = Did("init", "ok", NoSel, NoSel, NoSel)
    /\ text \in Docs \cup SampleDocs
    /\ new_collocs = EmptyLexicon
    /\ key_order = <<>>
    /\ written = NothingWritten

ExtractCollocations ==
    /\ last.op = "init"
    /\ new_collocs' = extract_collocations(text)
    /\ last' = Did("extract", "ok", NoSel, NoSel, NoSel)
    /\ UNCHANGED <<lexicon, lexeme_list, selected, partner_list, search_input,
                   pc, text, key_order, written>>

NextExtract == ExtractCollocations

SpecExtract == InitExtract /\ [][NextExtract]_vars

(* The mappings extract_collocations returns for these documents.          *)
CandidateMappings == {extract_collocations(doc) : doc \in Docs}

-----------------------------------------------------------------------------
(* partners(A): the partner set of a lemma, empty when it is no key.       *)
Partners(d, A) == Get(d, A)

(* The lemmas a mapping mentions, as keys or as partners.                  *)
LemmasOf(d) == Keys(d) \cup UNION {d[k] : k \in Keys(d)}

(* C1 -- Symmetry: in every lexicon state reached by merges, add_partner,  *)
(* remove_partner and clear_all, B is a partner of A exactly when A is a   *)
(* partner of B.                                                           *)
C1_Symmetry ==
    \A A \in LemmasOf(lexicon), B \in LemmasOf(lexicon) :
        (B \in Partners(lexicon, A)) <=> (A \in Partners(lexicon, B))

(* A state right after add_partner added an edge to a lemma that already   *)
(* had a partner from a merged document.                                   *)
C1_Witness ==
    /\ last.op = "add_partner"
    /\ last.outcome = "added"
    /\ Cardinality(Partners(lexicon, last.lemma)) >= 2
    /\ last.partner \in Partners(lexicon, last.lemma)

(* C2 -- No isolated nodes: in every reachable state every key of the      *)
(* lexicon has a non-empty partner set (an operation that empties a        *)
(* partner set deletes the key).                                           *)
C2_NoIsolatedNodes ==
    \A k \in Keys(lexicon) : lexicon[k] # {}

(* C3 -- No self-loops: no lemma of a reachable lexicon is its own         *)
(* partner, and no lemma of a mapping returned by extract_collocations is. *)
NoSelfLoop(d) == \A A \in Keys(d) : A \notin d[A]

C3_NoSelfLoops ==
    /\ NoSelfLoop(lexicon)
    /\ \A m \in CandidateMappings : NoSelfLoop(m)
    /\ \A doc \in SampleDocs : NoSelfLoop(extract_collocations(doc))

(* A state right after load_file merged a document in which two forms of   *)
(* one lemma stand next to each other, into a lexicon that holds the lemma. *)
C3_Witness ==
    /\ last.op = "load_file"
    /\ last.outcome = "merged"
    /\ last.input = << <<knigi, kniga, mogut>> >>
    /\ lexicon[kniga] = {moch}

(* C4 -- Sentence-boundary isolation: extract_collocations makes b a       *)
(* partner of a only if a and b stand next to each other in the lemma list *)
(* of one sentence of the document.                                        *)
AdjacentIn(lemmas, a, b) ==
    \E i \in 1..(Len(lemmas) - 1) :
        \/ lemmas[i] = a /\ lemmas[i + 1] = b
        \/ lemmas[i] = b /\ lemmas[i + 1] = a

LemmaList(doc, n) == SentenceLemmas(FindAll(LowerSentence(doc[n])))

C4_SentenceBoundaryIsolation ==
    last.op = "extract" =>
        \A a \in Keys(new_collocs) : \A b \in new_collocs[a] :
            \E n \in 1..Len(text) : AdjacentIn(LemmaList(text, n), a, b)

(* A state after the extraction of a two-sentence document that yields     *)
(* edges, in which the last lemma of the first sentence and the first      *)
(* lemma of the second are different lemmas of full length, not linked.    *)
C4_Witness ==
    /\ last.op = "extract"
    /\ Len(text) = 2
    /\ new_collocs # EmptyLexicon
    /\ LemmaList(text, 1) # <<>>
    /\ LemmaList(text, 2) # <<>>
    /\ LET x == LemmaList(text, 1)[Len(LemmaList(text, 1))]
           y == LemmaList(text, 2)[1]
       IN  /\ x # y
           /\ Len(x) >= MinLen
           /\ Len(y) >= MinLen
           /\ y \notin Partners(new_collocs, x)

(* C5 -- No partial mutation on rejection: a load_file that stops on an    *)
(* unsupported format, an unreadable or blank file or a failure inside the *)
(* extraction, and an add_partner that turns the text down for its length, *)
(* for having no analysis, for a stopword lemma or for a self-loop, leave  *)
(* the lexicon as it was.                                                  *)
RejectedOutcomes ==
    {"unsupported", "read_failed", "empty", "extract_failed",
     "too_short", "no_parse", "stopword", "self_loop"}

C5_NoPartialMutation ==
    [][last'.outcome \in RejectedOutcomes => lexicon' = lexicon]_vars

(* A state right after add_partner turned a text down for its stopword     *)
(* lemma, the lexicon holding edges.                                       *)
C5_Witness ==
    /\ last.op = "add_partner"
    /\ last.outcome = "stopword"
    /\ Keys(lexicon) # {}

(* C6 -- merge is idempotent, order-independent and only adds: for the     *)
(* lexicon of every reachable state and all mappings M, N returned by      *)
(* extract_collocations, merging M twice equals merging it once, merging M *)
(* then N equals merging N then M, and every edge of the lexicon is still  *)
(* there after merging M.                                                  *)
MergeInputs == CandidateMappings \cup {extract_collocations(doc) : doc \in SampleDocs}

C6_MergeIdempotentCommutative ==
    \A M \in MergeInputs, N \in MergeInputs :
        /\ Merge(Merge(lexicon, M), M) = Merge(lexicon, M)
        /\ Merge(Merge(lexicon, M), N) = Merge(Merge(lexicon, N), M)
        /\ \A k \in Keys(lexicon) :
              /\ k \in Keys(Merge(lexicon, M))
              /\ lexicon[k] \subseteq Merge(lexicon, M)[k]

(* A state right after load_file merged a document into a lexicon that     *)
(* holds an edge added by hand, with mappings left that would add to it.   *)
C6_Witness ==
    /\ last.op = "load_file"
    /\ last.outcome = "merged"
    /\ kot \in Keys(lexicon)
    /\ kniga \in Keys(lexicon)
    /\ \E M \in MergeInputs, N \in MergeInputs :
          /\ Merge(lexicon, M) # lexicon
          /\ Merge(lexicon, N) # Merge(lexicon, M)

(* C7 -- add_link rejects self and stopwords: add_partner turns the text   *)
(* down, and leaves the lexicon as it was, whenever the text normalizes to *)
(* the selected lemma and whenever the text is itself a member of the      *)
(* stopword set.                                                           *)
AddAccepted == {"added", "KeyError"}

C7_AddLinkRejectsSelfAndStopwords ==
    [][(/\ last'.op = "add_partner"
        /\ last'.outcome # "no_selection"
        /\ \/ PartnerText(last'.input) \in russian_stopwords \cup ExtractArtifacts
           \/ /\ Parse(PartnerText(last'.input)) # <<>>
              /\ PartnerLemma(PartnerText(last'.input)) = last'.lemma)
       => (last'.outcome \notin AddAccepted /\ lexicon' = lexicon)]_vars

(* C8 -- Lemma validity: every key and every partner of a reachable        *)
(* lexicon has at least MinLen characters and is no member of the          *)
(* stopword/artifact set.                                                  *)
C8_LemmaValidity ==
    \A x \in LemmasOf(lexicon) :
        /\ Len(x) >= MinLen
        /\ x \notin russian_stopwords \cup ExtractArtifacts

(* C9 -- add_link success postcondition: when add_partner has accepted the *)
(* text (every check passed) with partner lemma p, afterwards p is a       *)
(* partner of the lemma and the lemma a partner of p, whether or not the   *)
(* two were keys before, and every other key and edge is as it was.        *)
C9_AddLinkPostcondition ==
    [][(last'.op = "add_partner" /\ last'.outcome \in AddAccepted)
       => LET l == last'.lemma
              p == last'.partner
          IN  /\ Partners(lexicon', l) = Partners(lexicon, l) \cup {p}
              /\ Partners(lexicon', p) = Partners(lexicon, p) \cup {l}
              /\ Keys(lexicon') = Keys(lexicon) \cup {l, p}
              /\ \A k \in Keys(lexicon) \ {l, p} : lexicon'[k] = lexicon[k]]_vars

(* C10 -- remove_link prunes: remove_partner on lemma A and partner B ends *)
(* without an error, leaves neither B a partner of A nor A a partner of B, *)
(* deletes exactly the endpoints whose partner set became empty (a lexicon *)
(* holding only the edge A-B becomes empty) and leaves every other key as  *)
(* it was; on two keys that are not linked the removal raises nothing and  *)
(* changes nothing.                                                        *)
RemovalOfAbsentEdge ==
    pc = "running" =>
        \A A \in Keys(lexicon), B \in Keys(lexicon) :
            (A # B /\ B \notin lexicon[A]) =>
                RemoveLink(lexicon, A, B) = [lexicon |-> lexicon, raised |-> FALSE]

RemovalStep ==
    (last'.op = "remove_partner" /\ last'.outcome # "no_selection")
    => LET A == last'.lemma
           B == last'.partner
       IN  /\ last'.outcome = "removed"
           /\ B \notin Partners(lexicon', A)
           /\ A \notin Partners(lexicon', B)
           /\ Keys(lexicon') \subseteq Keys(lexicon)
           /\ (A \in Keys(lexicon')) <=> (Partners(lexicon, A) \ {B} # {})
           /\ (B \in Keys(lexicon')) <=> (Partners(lexicon, B) \ {A} # {})
           /\ Partners(lexicon', A) = Partners(lexicon, A) \ {B}
           /\ Partners(lexicon', B) = Partners(lexicon, B) \ {A}
           /\ \A k \in Keys(lexicon) \ {A, B} :
                 k \in Keys(lexicon') /\ lexicon'[k] = lexicon[k]
           /\ (Keys(lexicon) = {A, B}) => (lexicon' = EmptyLexicon)

C10_RemoveLinkPrunes == [][RemovalOfAbsentEdge /\ RemovalStep]_vars

(* A state right after remove_partner removed the only edge of the lexicon *)
(* and left it empty.                                                      *)
C10_Witness ==
    /\ last.op = "remove_partner"
    /\ last.outcome = "removed"
    /\ lexicon = EmptyLexicon

(* C11 -- Export ordering: whatever a handler writes as an export (the     *)
(* dictionary of save_lexicon, the report of document_lexicon) lists its   *)
(* entries sorted by lemma text, and the partners of each entry sorted.    *)
SortedSeq(seq) ==
    \A i \in 1..(Len(seq) - 1) : LessText(seq[i], seq[i + 1])

C11_ExportOrdering ==
    written.kind # "none" =>
        /\ SortedSeq([i \in 1..Len(written.entries) |-> written.entries[i].lemma])
        /\ \A i \in 1..Len(written.entries) :
              SortedSeq(written.entries[i].partners)

(* C12 -- Adjacency on the filtered sequence, as claimed: after the        *)
(* extraction every lemma of every sentence's lemma list has at least      *)
(* MinLen characters (the length test of the bigram never rejects), and a  *)
(* and b are linked exactly when they differ and stand next to each other  *)
(* in the lemma list of one sentence.                                      *)
TextLemmas(doc) ==
    UNION {SeqToSet(LemmaList(doc, n)) : n \in 1..Len(doc)}

AdjacentInText(doc, a, b) ==
    \E n \in 1..Len(doc) : AdjacentIn(LemmaList(doc, n), a, b)

C12_AdjacencyOnFilteredSequence ==
    last.op = "extract" =>
        /\ \A a \in TextLemmas(text) : Len(a) >= MinLen
        /\ \A a \in TextLemmas(text) \cup LemmasOf(new_collocs) :
           \A b \in TextLemmas(text) \cup LemmasOf(new_collocs) :
              b \in Partners(new_collocs, a)
                  <=> (a # b /\ AdjacentInText(text, a, b))

(* C12, amended -- a and b are linked exactly when they differ, both have  *)
(* at least MinLen characters and they stand next to each other in the     *)
(* lemma list of one sentence; a lemma shorter than MinLen stays in the    *)
(* list and is linked to nothing.                                          *)
C12_AdjacencyWithLengthTest ==
    last.op = "extract" =>
        \A a \in TextLemmas(text) \cup LemmasOf(new_collocs) :
        \A b \in TextLemmas(text) \cup LemmasOf(new_collocs) :
            b \in Partners(new_collocs, a)
                <=> /\ a # b
                    /\ Len(a) >= MinLen
                    /\ Len(b) >= MinLen
                    /\ AdjacentInText(text, a, b)

(* A state after the extraction of a document with a sentence in which a   *)
(* dropped chunk stands between two words whose lemmas are linked, and a   *)
(* lemma shorter than MinLen stands next to a linked lemma, linked to      *)
(* nothing.                                                                *)
C12_Witness ==
    /\ last.op = "extract"
    /\ \E n \in 1..Len(text) :
         LET words  == FindAll(LowerSentence(text[n]))
             lemmas == LemmaList(text, n)
         IN  /\ Len(words) < Len(text[n])
             /\ \E i \in 1..(Len(lemmas) - 2) :
                  /\ lemmas[i + 1] \in Partners(new_collocs, lemmas[i])
                  /\ Len(lemmas[i + 2]) < MinLen
                  /\ lemmas[i + 2] \notin LemmasOf(new_collocs)

====
